---- MODULE Spec2Model ----
\* Model of the ingestion pipeline of mind_mate_ai:
\*   src/data_ingestion/data_ingestion.py  (extract_text, process_file, ingest_files)
\*   src/toxic_filter/toxic_filter.py      (get_toxicity_score)
\* One call of ingest_files is followed from its arguments to its return:
\* the orchestrator thread, the ThreadPoolExecutor's worker threads running
\* process_file, the clock that drives future.result(timeout=15), and the
\* output file.  An argument of ingest_files is drawn at the step that first
\* reads it.  Three more entry points are followed on their own, each with
\* its own specification: filter_excessive_eos (EosSpec), clean_text
\* (CleanSpec) and the end of main in src/app.py (AppSpec).
EXTENDS Integers, Sequences, FiniteSets, TLC

\* ------------------------------------------------------------------ bounds
MaxFiles == 2          \* longest file_paths list
MaxWorkers == 2        \* largest max_workers argument
MaxOracleItems == 1    \* longest list returned by the classifier pipeline

\* --------------------------------------------------------------- constants
Timeout == 15          \* future.result(timeout=15)
DefaultThreshold == 5000   \* toxicity_threshold=0.5, in units of 10^-4

\* ------------------------------------------------------------- file system
\* The paths a caller can pass.  Two of them share a basename, one has an
\* extension extract_text does not know, one is not a regular file.
Paths == {"u/a.txt", "v/a.txt", "c.png", "gone.txt"}

os_path_isfile(p) == p # "gone.txt"

os_path_basename(p) ==
    CASE p = "u/a.txt"  -> "a.txt"
      [] p = "v/a.txt"  -> "a.txt"
      [] p = "c.png"    -> "c.png"
      [] p = "gone.txt" -> "gone.txt"

\* os.path.splitext(file_path)[1].lower()
FileExt(p) ==
    CASE p = "u/a.txt"  -> ".txt"
      [] p = "v/a.txt"  -> ".txt"
      [] p = "c.png"    -> ".png"
      [] p = "gone.txt" -> ".txt"

\* What a file turns out to be when a worker reads it.
\*   good      readable, non-blank text, tokenizes to something
\*   blank     readable, but the text is empty after clean_text
\*   corrupt   the reader (PdfReader / docx / open) raises
\*   only_eos  every token is the EOS token
\*   tok_error the tokenizer call raises
\*   vanished  no longer a regular file when process_file looks
FileKinds == {"good", "blank", "corrupt", "only_eos", "tok_error", "vanished"}

\* ---------------------------------------------------------------- numbers
\* Classifier confidences are counted in units of 10^-5, the toxicity of a
\* record, round(float(toxicity_score), 4), in units of 10^-4 (5000 is 0.5).
\* No raw score sits exactly half way between two rounded values.
RawScores == {0, 49996, 50004, 99996}

Round4(raw) == (raw + 5) \div 10

Thresholds == {DefaultThreshold, 9000}

\* ------------------------------------------------------------------ oracle
Labels == {"TOXIC", "toxic", "neutral"}

\* r["label"].upper()
Upper(l) == IF l = "toxic" THEN "TOXIC" ELSE IF l = "neutral" THEN "NEUTRAL" ELSE l

OracleItems == [label : Labels, score : RawScores]

SeqsUpTo(S, n) == UNION {[1..k -> S] : k \in 0..n}

\* What toxicity_classifier(truncated_text) does: it raises, or it returns a
\* list of label/score dicts.
FailedResponse == [failed |-> TRUE, items |-> <<>>]

OracleResponses ==
    {FailedResponse} \cup
    {[failed |-> FALSE, items |-> s] : s \in SeqsUpTo(OracleItems, MaxOracleItems)}

\* The loop of lines 23-26: the score of the first item labelled TOXIC,
\* 0.0 when there is none.
RECURSIVE FirstToxic(_)
FirstToxic(items) ==
    IF items = <<>> THEN 0
    ELSE IF Upper(Head(items).label) = "TOXIC" THEN Head(items).score
    ELSE FirstToxic(Tail(items))

\* An adapter that answers a failing classifier with the sentinel -1.0.
get_toxicity_score_sentinel(resp) ==
    IF resp.failed THEN [raised |-> FALSE, score |-> 0 - 100000]
    ELSE [raised |-> FALSE, score |-> FirstToxic(resp.items)]

\* get_toxicity_score(text): there is no handler around the classifier call,
\* so a failing classifier raises out of the adapter.
get_toxicity_score(resp) ==
    IF resp.failed THEN [raised |-> TRUE, score |-> 0]
    ELSE [raised |-> FALSE, score |-> FirstToxic(resp.items)]

\* Everything a call of the adapter can come back with.
ScoreOutcomes == {get_toxicity_score(resp) : resp \in OracleResponses}

\* ------------------------------------------------------------ process_file
\* A worker's return value is <<>> (None) or <<record>>.
None == <<>>

SupportedExts == {".pdf", ".docx", ".txt"}

\* extract_text: <<text>> or <<>> (None).  The cleaned text of a path is
\* named by the path it was read from.
extract_text(p, kind) ==
    IF FileExt(p) \in SupportedExts
    THEN IF kind = "corrupt" THEN None
         ELSE IF kind = "blank" THEN <<"">>
         ELSE <<p>>
    ELSE None

\* process_file(file_path); s is what the call of get_toxicity_score at
\* line 134 comes back with.
process_file(p, kind, s) ==
    IF kind = "vanished" THEN None                           \* line 96
    ELSE LET raw_text == extract_text(p, kind) IN
      IF raw_text = None \/ raw_text[1] = "" THEN None       \* line 101
      ELSE IF kind = "tok_error" THEN None                   \* line 109 raises, line 142
      ELSE IF kind = "only_eos" THEN None                    \* line 123
      ELSE IF s.raised THEN None                             \* line 134 raises, line 142
      ELSE << [filename     |-> os_path_basename(p),
               cleaned_text |-> raw_text[1],
               toxicity     |-> Round4(s.score)] >>

\* ------------------------------------------------------------------- state
VARIABLES
    file_paths,          \* argument: the list of paths
    max_workers,         \* argument
    skip_toxic,          \* argument
    toxicity_threshold,  \* argument
    pc,                  \* where the orchestrator is in ingest_files
    futures,             \* future_to_file, in insertion order
    wait,                \* time the collector has spent in future.result
    results,             \* the results list
    outFile,             \* the file at output_path
    writes,              \* times the file at output_path was opened for writing
    write_status,        \* how the write of lines 171-178 ended
    ret                  \* what ingest_files gave its caller

\* The other entry points that are followed on their own: one call of
\* filter_excessive_eos, clean_text applied to a text and to its own result,
\* and the part of app.main from the call of ingest_files on.
VARIABLES
    tokens,              \* filter_excessive_eos: argument
    eos_id,              \* filter_excessive_eos: argument
    max_repeats,         \* filter_excessive_eos: argument
    filtered_tokens,     \* filter_excessive_eos: the list it returns
    eos_pc,              \* "call" or "returned"
    text,                \* clean_text: argument
    cleaned,             \* clean_text(text)
    recleaned,           \* clean_text(clean_text(text))
    clean_pc,            \* "call", "once" or "twice"
    app_pc,              \* where main is
    app_results,         \* main: results
    app_file,            \* main: the file at output_path
    ui,                  \* main: what streamlit has shown, in order
    upload_status        \* main: how the call of upload_to_gdrive ended

eos_vars == <<tokens, eos_id, max_repeats, filtered_tokens, eos_pc>>
clean_vars == <<text, cleaned, recleaned, clean_pc>>
app_vars == <<app_pc, app_results, app_file, ui, upload_status>>
ingest_vars == <<file_paths, max_workers, skip_toxic, toxicity_threshold, pc,
                 futures, wait, results, outFile, writes, write_status, ret>>

vars == <<ingest_vars, eos_vars, clean_vars, app_vars>>

Min(a, b) == IF a < b THEN a ELSE b

\* The elements of a list.
Range(f) == {f[x] : x \in DOMAIN f}

\* The clock advances one collector timeout at a time, or up to the
\* collector's deadline when that is nearer.
TickStep == Timeout

\* Ages above the timeout are not told apart.
Older(age, d) == IF age + d > Timeout THEN Timeout + 1 ELSE age + d

NoReturn == [returned |-> FALSE, raised |-> FALSE, value |-> <<>>]

OldFile == [exists |-> TRUE, lines |-> << <<"stale">> >>]
NoFile  == [exists |-> FALSE, lines |-> <<>>]

\* No call of filter_excessive_eos, of clean_text, of main is under way.
EosIdle ==
    /\ tokens = <<>>
    /\ eos_id = 0
    /\ max_repeats = 0
    /\ filtered_tokens = <<>>
    /\ eos_pc = "idle"

CleanIdle ==
    /\ text = <<>>
    /\ cleaned = <<>>
    /\ recleaned = <<>>
    /\ clean_pc = "idle"

AppIdle ==
    /\ app_pc = "idle"
    /\ app_results = <<>>
    /\ app_file = NoFile
    /\ ui = <<>>
    /\ upload_status = "none"

Init ==
    /\ EosIdle /\ CleanIdle /\ AppIdle
    /\ file_paths = <<>>
    /\ max_workers = 0
    /\ skip_toxic = FALSE
    /\ toxicity_threshold = 0
    /\ pc = "start"
    /\ futures = <<>>
    /\ wait = 0
    /\ results = <<>>
    /\ outFile \in {NoFile, OldFile}
    /\ writes = 0
    /\ write_status = "none"
    /\ ret = NoReturn

\* -------------------------------------------------------------- orchestrator
\* The filter that lets every path through.
ValidPaths_all(paths) == paths

\* valid_paths = [fp for fp in file_paths if os.path.isfile(fp)]
ValidPaths(paths) == SelectSeq(paths, os_path_isfile)

\* Lines 149-152, then the construction of the pool and the submit of every
\* valid path (lines 157-158).  ThreadPoolExecutor raises ValueError for
\* max_workers <= 0.
Submit(paths, workers) ==
    /\ pc = "start"
    /\ file_paths' = paths
    /\ max_workers' = workers
    /\ LET valid_paths == ValidPaths(paths) IN
       IF valid_paths = <<>> THEN
            /\ pc' = "done"
            /\ ret' = [returned |-> TRUE, raised |-> FALSE, value |-> <<>>]
            /\ UNCHANGED futures
       ELSE IF workers <= 0 THEN
            /\ pc' = "done"
            /\ ret' = [returned |-> FALSE, raised |-> TRUE, value |-> <<>>]
            /\ UNCHANGED futures
       ELSE
            /\ pc' = "collect"
            /\ futures' = [i \in 1..Len(valid_paths) |->
                             [path |-> valid_paths[i], st |-> "queued", age |-> 0,
                              late |-> FALSE, result |-> None, seen |-> "no"]]
            /\ UNCHANGED ret
    /\ UNCHANGED <<skip_toxic, toxicity_threshold, wait, results, outFile, writes, write_status>>

\* ------------------------------------------------------------------ workers
Busy == {i \in 1..Len(futures) : futures[i].st = "running"}
Queued == {i \in 1..Len(futures) : futures[i].st = "queued"}

\* A free thread takes the oldest work item of the queue.
WorkerStart(i) ==
    /\ i \in Queued
    /\ \A j \in Queued : i <= j
    /\ Cardinality(Busy) < max_workers
    /\ futures' = [futures EXCEPT ![i].st = "running"]
    /\ UNCHANGED <<file_paths, max_workers, skip_toxic, toxicity_threshold,
                   pc, wait, results, outFile, writes, write_status, ret>>

\* process_file returns and its value is set on the future; a call that
\* hangs never takes this step.  late: the call took longer than the
\* collector's timeout.  The classifier is only called for a file that got
\* as far as scoring.
WorkerFinish(i, kind, s) ==
    /\ i \in 1..Len(futures)
    /\ futures[i].st = "running"
    /\ kind # "good" => s = get_toxicity_score(FailedResponse)
    /\ futures' = [futures EXCEPT
                      ![i].st = "done",
                      ![i].age = 0,
                      ![i].late = futures[i].age > Timeout,
                      ![i].result = process_file(futures[i].path, kind, s)]
    /\ UNCHANGED <<file_paths, max_workers, skip_toxic, toxicity_threshold,
                   pc, wait, results, outFile, writes, write_status, ret>>

\* ---------------------------------------------------------------- collector
\* The futures the collector has not looked at yet.
Unseen == {i \in 1..Len(futures) : futures[i].seen = "no"}

\* Collecting in completion order, as concurrent.futures.as_completed would:
\* any finished future not looked at yet, else the first not looked at.
NextFuture_as_completed ==
    LET ready == {i \in Unseen : futures[i].st = "done"} IN
    IF ready # {} THEN ready ELSE {i \in Unseen : \A j \in Unseen : i <= j}

\* The future the loop `for future in future_to_file` looks at next: the
\* first one, in insertion order, it has not looked at.
NextFuture == {i \in Unseen : \A j \in Unseen : i <= j}

\* A collector that puts each result at the front of the list.
CollectResult_prepend(i) ==
    /\ pc = "collect"
    /\ i \in NextFuture
    /\ futures[i].st = "done"
    /\ results' = futures[i].result \o results
    /\ futures' = [futures EXCEPT ![i].seen = "result"]
    /\ wait' = 0
    /\ UNCHANGED <<file_paths, max_workers, skip_toxic, toxicity_threshold,
                   pc, outFile, writes, write_status, ret>>

\* future.result(timeout=15) returns; `if result: results.append(result)`.
CollectResult(i) ==
    /\ pc = "collect"
    /\ i \in NextFuture
    /\ futures[i].st = "done"
    /\ results' = results \o futures[i].result
    /\ futures' = [futures EXCEPT ![i].seen = "result"]
    /\ wait' = 0
    /\ UNCHANGED <<file_paths, max_workers, skip_toxic, toxicity_threshold,
                   pc, outFile, writes, write_status, ret>>

\* The futures at the instant the collector's deadline on future i passes:
\* a call that began a full timeout ago and has not returned now takes
\* longer than the timeout.
PastDeadline(j, i) ==
    LET f == IF futures[j].st = "running" /\ futures[j].age >= Timeout
             THEN [futures[j] EXCEPT !.age = Timeout + 1]
             ELSE futures[j]
    IN IF j = i THEN [f EXCEPT !.seen = "timeout"] ELSE f

\* A timeout that leaves a stub record for the file in results.
CollectTimeout_stub(i) ==
    /\ pc = "collect"
    /\ i \in NextFuture
    /\ futures[i].st # "done"
    /\ wait >= Timeout
    /\ futures' = [j \in 1..Len(futures) |-> PastDeadline(j, i)]
    /\ results' = results \o << [filename     |-> os_path_basename(futures[i].path),
                                 cleaned_text |-> "",
                                 toxicity     |-> 0] >>
    /\ wait' = 0
    /\ UNCHANGED <<file_paths, max_workers, skip_toxic, toxicity_threshold,
                   pc, outFile, writes, write_status, ret>>

\* future.result(timeout=15) raises TimeoutError, which the loop logs.
CollectTimeout(i) ==
    /\ pc = "collect"
    /\ i \in NextFuture
    /\ futures[i].st # "done"
    /\ wait >= Timeout
    /\ futures' = [j \in 1..Len(futures) |-> PastDeadline(j, i)]
    /\ results' = results
    /\ wait' = 0
    /\ UNCHANGED <<file_paths, max_workers, skip_toxic, toxicity_threshold,
                   pc, outFile, writes, write_status, ret>>

\* shutdown(wait=False): the exit of the block waits for nothing.
AllWorkersDone_nowait == TRUE

\* What the exit of the `with ThreadPoolExecutor` block waits for:
\* shutdown(wait=True) joins every worker thread.
AllWorkersDone == \A i \in 1..Len(futures) : futures[i].st = "done"

ExecutorExit ==
    /\ pc = "collect"
    /\ Unseen = {}
    /\ AllWorkersDone
    /\ pc' = "write"
    /\ UNCHANGED <<file_paths, max_workers, skip_toxic, toxicity_threshold,
                   futures, wait, results, outFile, writes, write_status, ret>>
    /\ UNCHANGED <<eos_vars, clean_vars, app_vars>>

\* ------------------------------------------------------------ filter, write
\* The comparison with <= in place of <.
Include_le(r, skip, threshold) == (~skip) \/ r.toxicity <= threshold

Include(r, skip, threshold) == (~skip) \/ r.toxicity < threshold

\* filtered_results, line 169
FilteredResults(rs, skip, threshold) ==
    SelectSeq(rs, LAMBDA r : Include(r, skip, threshold))

\* The two f.write calls of one item.
ItemLines(item) ==
    << <<"header", item.filename, item.toxicity>>, <<"body", item.cleaned_text>> >>

RECURSIVE Serialize(_)
Serialize(items) ==
    IF items = <<>> THEN <<>> ELSE ItemLines(Head(items)) \o Serialize(Tail(items))

\* The value ingest_files returns (line 180).
ReturnValue(rs, filtered) == filtered

\* A write error that is not caught.
AfterWriteError_raise(value) == [returned |-> FALSE, raised |-> TRUE, value |-> <<>>]

\* What ingest_files does when the write raised (lines 177-180).
AfterWriteError(value) == [returned |-> TRUE, raised |-> FALSE, value |-> value]

\* Lines 169-180 with the open inside `if filtered_results:`: nothing to
\* write, nothing opened.
WriteAndReturn_skip_empty(skip, threshold, status, k) ==
    /\ pc = "write"
    /\ skip_toxic' = skip
    /\ toxicity_threshold' = threshold
    /\ LET filtered_results == FilteredResults(results, skip, threshold)
           lines == Serialize(filtered_results)
           value == ReturnValue(results, filtered_results)
           opened == filtered_results # <<>> /\ status # "open_failed"
       IN /\ k \in 0..Len(lines)
          /\ status = "ok" => k = Len(lines)
          /\ status = "open_failed" => k = 0
          /\ status = "write_failed" => k < Len(lines)
          /\ outFile' = IF opened THEN [exists |-> TRUE, lines |-> SubSeq(lines, 1, k)]
                        ELSE outFile
          /\ writes' = IF opened THEN writes + 1 ELSE writes
          /\ write_status' = IF filtered_results = <<>> THEN "none" ELSE status
          /\ ret' = IF status = "ok"
                    THEN [returned |-> TRUE, raised |-> FALSE, value |-> value]
                    ELSE AfterWriteError(value)
    /\ pc' = "done"
    /\ UNCHANGED <<file_paths, max_workers, futures, wait, results>>

WriteStatuses == {"ok", "open_failed", "write_failed"}

\* Lines 169-180.  status: "ok", "open_failed" (open raises, the file is not
\* touched) or "write_failed" (a write raises after k lines went out).
WriteAndReturn(skip, threshold, status, k) ==
    /\ pc = "write"
    /\ skip_toxic' = skip
    /\ toxicity_threshold' = threshold
    /\ LET filtered_results == FilteredResults(results, skip, threshold)
           lines == Serialize(filtered_results)
           value == ReturnValue(results, filtered_results)
       IN /\ k \in 0..Len(lines)
          /\ status = "ok" => k = Len(lines)
          /\ status = "open_failed" => k = 0
          /\ status = "write_failed" => k < Len(lines)
          /\ outFile' = IF status = "open_failed" THEN outFile
                        ELSE [exists |-> TRUE, lines |-> SubSeq(lines, 1, k)]
          /\ writes' = IF status = "open_failed" THEN writes ELSE writes + 1
          /\ write_status' = status
          /\ ret' = IF status = "ok"
                    THEN [returned |-> TRUE, raised |-> FALSE, value |-> value]
                    ELSE AfterWriteError(value)
    /\ pc' = "done"
    /\ UNCHANGED <<file_paths, max_workers, futures, wait, results>>

\* -------------------------------------------------------------------- clock
\* Time passes while the orchestrator is blocked (in future.result before its
\* deadline, or in the executor's shutdown) and no thread is free to start a
\* queued item.
Blocked ==
    /\ pc = "collect"
    /\ \/ Unseen # {} /\ wait < Timeout /\ \A i \in NextFuture : futures[i].st # "done"
       \/ Unseen = {} /\ ~AllWorkersDone

Tick ==
    /\ Blocked
    /\ ~(Queued # {} /\ Cardinality(Busy) < max_workers)
    /\ LET d == IF Unseen # {} THEN Min(TickStep, Timeout - wait) ELSE TickStep IN
       /\ wait' = IF Unseen # {} THEN wait + d ELSE wait
       /\ futures' = [i \in 1..Len(futures) |->
                        IF futures[i].st = "running"
                        THEN [futures[i] EXCEPT !.age = Older(@, d)]
                        ELSE futures[i]]
    /\ UNCHANGED <<file_paths, max_workers, skip_toxic, toxicity_threshold,
                   pc, results, outFile, writes, write_status, ret>>
    /\ UNCHANGED <<eos_vars, clean_vars, app_vars>>

\* The steps, each with its inputs.
Call ==
    /\ pc = "start"
    /\ \E paths \in SeqsUpTo(Paths, MaxFiles), workers \in 0..MaxWorkers : Submit(paths, workers)
    /\ UNCHANGED <<eos_vars, clean_vars, app_vars>>

Start ==
    /\ \E i \in Queued : WorkerStart(i)
    /\ UNCHANGED <<eos_vars, clean_vars, app_vars>>

Finish ==
    /\ \E i \in Busy, kind \in FileKinds, s \in ScoreOutcomes : WorkerFinish(i, kind, s)
    /\ UNCHANGED <<eos_vars, clean_vars, app_vars>>

Collect ==
    /\ \E i \in NextFuture : CollectResult(i)
    /\ UNCHANGED <<eos_vars, clean_vars, app_vars>>

GiveUp ==
    /\ \E i \in NextFuture : CollectTimeout(i)
    /\ UNCHANGED <<eos_vars, clean_vars, app_vars>>

Write ==
    /\ pc = "write"
    /\ \E skip \in BOOLEAN, threshold \in Thresholds, status \in WriteStatuses,
          k \in 0..(2 * Len(results)) : WriteAndReturn(skip, threshold, status, k)
    /\ UNCHANGED <<eos_vars, clean_vars, app_vars>>

Next ==
    \/ Call
    \/ Start
    \/ Finish
    \/ Collect
    \/ GiveUp
    \/ ExecutorExit
    \/ Write
    \/ Tick

Spec == Init /\ [][Next]_vars

\* The scheduler runs every thread that can run and time passes.  Nothing
\* makes a call of process_file return: Finish gets no fairness.
Fairness ==
    /\ WF_vars(Call)
    /\ WF_vars(Start)
    /\ WF_vars(Collect)
    /\ WF_vars(GiveUp)
    /\ WF_vars(ExecutorExit)
    /\ WF_vars(Write)
    /\ WF_vars(Tick)

FairSpec == Spec /\ Fairness

TypeOK ==
    /\ pc \in {"start", "collect", "write", "done"}
    /\ Len(futures) <= MaxFiles
    /\ wait \in 0..Timeout
    /\ writes \in 0..1
\* ------------------------------------------------------ filter_excessive_eos
MaxTokens == 4         \* longest token list
MaxRepeats == 2        \* largest max_repeats argument

TokenIds == {0, 1, 2}

\* The loop body with the counter never reset.
EosStep_noreset(acc, token, eos, maxr) ==
    IF token = eos
    THEN LET n == acc.eos_count + 1 IN
         [filtered_tokens |-> IF n <= maxr THEN Append(acc.filtered_tokens, token)
                              ELSE acc.filtered_tokens,
          eos_count |-> n]
    ELSE [filtered_tokens |-> Append(acc.filtered_tokens, token),
          eos_count |-> acc.eos_count]

\* The body of the loop of lines 46-53 on one token.
EosStep(acc, token, eos, maxr) ==
    IF token = eos
    THEN LET n == acc.eos_count + 1 IN
         [filtered_tokens |-> IF n <= maxr THEN Append(acc.filtered_tokens, token)
                              ELSE acc.filtered_tokens,
          eos_count |-> n]
    ELSE [filtered_tokens |-> Append(acc.filtered_tokens, token),
          eos_count |-> 0]

RECURSIVE EosLoop(_, _, _, _)
EosLoop(toks, eos, maxr, acc) ==
    IF toks = <<>> THEN acc
    ELSE EosLoop(Tail(toks), eos, maxr, EosStep(acc, Head(toks), eos, maxr))

filter_excessive_eos(toks, eos, maxr) ==
    EosLoop(toks, eos, maxr, [filtered_tokens |-> <<>>, eos_count |-> 0]).filtered_tokens

\* No call of ingest_files is under way.
IngestIdle ==
    /\ file_paths = <<>>
    /\ max_workers = 0
    /\ skip_toxic = FALSE
    /\ toxicity_threshold = 0
    /\ pc = "idle"
    /\ futures = <<>>
    /\ wait = 0
    /\ results = <<>>
    /\ outFile = NoFile
    /\ writes = 0
    /\ write_status = "none"
    /\ ret = NoReturn

EosInit ==
    /\ IngestIdle /\ CleanIdle /\ AppIdle
    /\ tokens \in SeqsUpTo(TokenIds, MaxTokens)
    /\ eos_id \in TokenIds
    /\ max_repeats \in 0..MaxRepeats
    /\ filtered_tokens = <<>>
    /\ eos_pc = "call"

FilterCall ==
    /\ eos_pc = "call"
    /\ filtered_tokens' = filter_excessive_eos(tokens, eos_id, max_repeats)
    /\ eos_pc' = "returned"
    /\ UNCHANGED <<tokens, eos_id, max_repeats, ingest_vars, clean_vars, app_vars>>

EosNext == FilterCall

EosSpec == EosInit /\ [][EosNext]_vars

\* --------------------------------------------------------------- clean_text
\* A text is a sequence of symbols.  A symbol is one character, except that
\* the literals the patterns look for are one symbol each: "http", "(Link:",
\* "date" for `DD/MM/YYYY,` and "time" for `HH:MM`.  "x" is a letter, "sp" a
\* space, "nl" a newline, "bullet" and "arrow" the two glyphs of the
\* replacement texts.
MaxText == 4           \* longest text, in symbols

InputSymbols == {"x", "sp", "nl", "*", "-", "http", "(Link:", ")", "date", "time"}

\* \s
IsSpace(c) == c \in {"sp", "nl"}

RECURSIVE DropSpace(_)
DropSpace(s) == IF s = <<>> \/ ~IsSpace(Head(s)) THEN s ELSE DropSpace(Tail(s))

RECURSIVE DropNonSpace(_)
DropNonSpace(s) == IF s = <<>> \/ IsSpace(Head(s)) THEN s ELSE DropNonSpace(Tail(s))

\* re.sub(r'http\S+', '', text)
RECURSIVE RemoveUrls(_)
RemoveUrls(s) ==
    IF s = <<>> THEN <<>>
    ELSE IF Head(s) = "http" /\ Len(s) >= 2 /\ ~IsSpace(s[2])
         THEN RemoveUrls(DropNonSpace(Tail(s)))
         ELSE <<Head(s)>> \o RemoveUrls(Tail(s))

\* re.sub(r'\d{2}/\d{2}/\d{4}, \d{2}:\d{2}', '', text)
RECURSIVE RemoveTimestamps(_)
RemoveTimestamps(s) ==
    IF s = <<>> THEN <<>>
    ELSE IF Len(s) >= 3 /\ s[1] = "date" /\ s[2] = "sp" /\ s[3] = "time"
         THEN RemoveTimestamps(SubSeq(s, 4, Len(s)))
         ELSE <<Head(s)>> \o RemoveTimestamps(Tail(s))

\* re.sub(r'\s+', ' ', text)
RECURSIVE CollapseSpaces(_)
CollapseSpaces(s) ==
    IF s = <<>> THEN <<>>
    ELSE IF IsSpace(Head(s))
         THEN <<"sp">> \o CollapseSpaces(DropSpace(Tail(s)))
         ELSE <<Head(s)>> \o CollapseSpaces(Tail(s))

RECURSIVE StripRight(_)
StripRight(s) ==
    IF s # <<>> /\ IsSpace(s[Len(s)]) THEN StripRight(SubSeq(s, 1, Len(s) - 1)) ELSE s

\* .strip()
Strip(s) == StripRight(DropSpace(s))

\* The replacement text '\n• '
BulletText == <<"nl", "bullet", "sp">>

\* re.sub(r'(\*|-)\s+', '\n• ', text)
RECURSIVE Bullets(_)
Bullets(s) ==
    IF s = <<>> THEN <<>>
    ELSE IF Head(s) \in {"*", "-"} /\ Len(s) >= 2 /\ IsSpace(s[2])
         THEN BulletText \o Bullets(DropSpace(Tail(s)))
         ELSE <<Head(s)>> \o Bullets(Tail(s))

\* The position of the first ")" of s, 0 when it has none.
FirstClose(s) ==
    LET S == {i \in DOMAIN s : s[i] = ")"}
    IN IF S = {} THEN 0 ELSE CHOOSE i \in S : \A j \in S : i <= j

\* re.sub(r'\(Link:\s*(.*?)\)', r' [→ \1]', text); `.` matches no newline.
RECURSIVE FixLinks(_)
FixLinks(s) ==
    IF s = <<>> THEN <<>>
    ELSE LET rest == DropSpace(Tail(s))
             k == FirstClose(rest)
         IN IF Head(s) = "(Link:" /\ k > 0 /\ \A j \in 1..(k - 1) : rest[j] # "nl"
            THEN <<"sp", "[", "arrow", "sp">> \o SubSeq(rest, 1, k - 1) \o <<"]">>
                    \o FixLinks(SubSeq(rest, k + 1, Len(rest)))
            ELSE <<Head(s)>> \o FixLinks(Tail(s))

\* re.sub(r'\(Link:\s*\)', '', text)
RECURSIVE DropEmptyLinks(_)
DropEmptyLinks(s) ==
    IF s = <<>> THEN <<>>
    ELSE LET rest == DropSpace(Tail(s))
         IN IF Head(s) = "(Link:" /\ rest # <<>> /\ Head(rest) = ")"
            THEN DropEmptyLinks(Tail(rest))
            ELSE <<Head(s)>> \o DropEmptyLinks(Tail(s))

\* re.sub(r'\(Link:\s*[^)]+\)', '', text)
RECURSIVE DropLinks(_)
DropLinks(s) ==
    IF s = <<>> THEN <<>>
    ELSE LET k == FirstClose(Tail(s))
         IN IF Head(s) = "(Link:" /\ k >= 2
            THEN DropLinks(SubSeq(Tail(s), k + 1, Len(s) - 1))
            ELSE <<Head(s)>> \o DropLinks(Tail(s))

clean_text(s) ==
    DropLinks(DropEmptyLinks(FixLinks(Bullets(
        Strip(CollapseSpaces(RemoveTimestamps(RemoveUrls(s))))))))

CleanInit ==
    /\ IngestIdle /\ EosIdle /\ AppIdle
    /\ text \in SeqsUpTo(InputSymbols, MaxText)
    /\ cleaned = <<>>
    /\ recleaned = <<>>
    /\ clean_pc = "call"

CleanOnce ==
    /\ clean_pc = "call"
    /\ cleaned' = clean_text(text)
    /\ clean_pc' = "once"
    /\ UNCHANGED <<text, recleaned, ingest_vars, eos_vars, app_vars>>

CleanTwice ==
    /\ clean_pc = "once"
    /\ recleaned' = clean_text(cleaned)
    /\ clean_pc' = "twice"
    /\ UNCHANGED <<text, cleaned, ingest_vars, eos_vars, app_vars>>

CleanNext ==
    \/ CleanOnce
    \/ CleanTwice

CleanSpec == CleanInit /\ [][CleanNext]_vars

\* ----------------------------------------------------------------- app.main
\* main from the call of ingest_files (line 131) to its end.
TOXICITY_THRESHOLD == 5000     \* 0.5, in units of 10^-4

\* The records a call of process_file can give.
AppRecords ==
    UNION {Range(process_file(p, "good", s)) : p \in Paths, s \in ScoreOutcomes}

\* output_path is named after the current second: no file is there yet.
AppInit ==
    /\ IngestIdle /\ EosIdle /\ CleanIdle
    /\ app_pc = "ingest"
    /\ app_results = <<>>
    /\ app_file = NoFile
    /\ ui = <<>>
    /\ upload_status = "none"

\* results = ingest_files(file_paths, output_path=output_path), with
\* skip_toxic and toxicity_threshold at their defaults: rs are the records
\* the collector took; the file is written as WriteAndReturn writes it.
AppIngest(rs, status, k) ==
    /\ app_pc = "ingest"
    /\ LET filtered_results == FilteredResults(rs, TRUE, DefaultThreshold)
           lines == Serialize(filtered_results)
       IN /\ k \in 0..Len(lines)
          /\ status = "ok" => k = Len(lines)
          /\ status = "open_failed" => k = 0
          /\ status = "write_failed" => k < Len(lines)
          /\ app_file' = IF status = "open_failed" THEN app_file
                         ELSE [exists |-> TRUE, lines |-> SubSeq(lines, 1, k)]
          /\ app_results' = ReturnValue(rs, filtered_results)
    /\ app_pc' = "summary"
    /\ UNCHANGED <<ui, upload_status, ingest_vars, eos_vars, clean_vars>>

\* What the loop of lines 137-147 shows for one record.
SummaryOf(r) ==
    << <<"write", r.filename, r.toxicity>> >>
        \o (IF r.toxicity >= TOXICITY_THRESHOLD THEN << <<"warning", r.filename>> >> ELSE <<>>)

RECURSIVE Summary(_)
Summary(rs) == IF rs = <<>> THEN <<>> ELSE SummaryOf(Head(rs)) \o Summary(Tail(rs))

\* Lines 133-147.
AppSummary ==
    /\ app_pc = "summary"
    /\ ui' = ui \o Summary(app_results)
    /\ app_pc' = "upload"
    /\ UNCHANGED <<app_results, app_file, upload_status, ingest_vars, eos_vars, clean_vars>>

\* Lines 150-154: upload_to_gdrive returns.  It reads the file at
\* output_path, so there is one.
AppUploadOk ==
    /\ app_pc = "upload"
    /\ app_file.exists
    /\ upload_status' = "ok"
    /\ ui' = ui \o << <<"info">>, <<"success">> >>
    /\ app_pc' = "download"
    /\ UNCHANGED <<app_results, app_file, ingest_vars, eos_vars, clean_vars>>

\* Lines 150-157: upload_to_gdrive raises; st.error, then return.
AppUploadFails ==
    /\ app_pc = "upload"
    /\ upload_status' = "failed"
    /\ ui' = ui \o << <<"info">>, <<"error">> >>
    /\ app_pc' = "returned"
    /\ UNCHANGED <<app_results, app_file, ingest_vars, eos_vars, clean_vars>>

\* Lines 159-168: the download button, fed from the file at output_path.
AppDownload ==
    /\ app_pc = "download"
    /\ ui' = Append(ui, <<"download_button", app_file.lines>>)
    /\ app_pc' = "returned"
    /\ UNCHANGED <<app_results, app_file, upload_status, ingest_vars, eos_vars, clean_vars>>

AppIngested ==
    /\ app_pc = "ingest"
    /\ \E rs \in SeqsUpTo(AppRecords, MaxFiles), status \in WriteStatuses,
          k \in 0..(2 * MaxFiles) : AppIngest(rs, status, k)

AppNext ==
    \/ AppIngested
    \/ AppSummary
    \/ AppUploadOk
    \/ AppUploadFails
    \/ AppDownload

AppSpec == AppInit /\ [][AppNext]_vars

\* ================================================================== claims

\* The records of the artifact, as <<header, body>> pairs, in file order.
ArtifactEntries ==
    [j \in 1..(Len(outFile.lines) \div 2) |->
        <<outFile.lines[2 * j - 1], outFile.lines[2 * j]>>]

EntryOf(r) == <<<<"header", r.filename, r.toxicity>>, <<"body", r.cleaned_text>>>>

\* The positions of results that pass the inclusion predicate of the spec.
IncludedIdx ==
    {k \in DOMAIN results : (~skip_toxic) \/ results[k].toxicity < toxicity_threshold}

RECURSIVE IsSubseq(_, _)
IsSubseq(a, b) ==
    IF a = <<>> THEN TRUE
    ELSE IF b = <<>> THEN FALSE
    ELSE IF Head(a) = Head(b) THEN IsSubseq(Tail(a), Tail(b))
    ELSE IsSubseq(a, Tail(b))

\* C1: ingest_files returns every record of the batch, the ones the filter
\* kept out of the artifact included: each collected record is in the
\* returned list.
C1_ReturnsExcludedRecords ==
    ret.returned => \A k \in DOMAIN results : results[k] \in Range(ret.value)

\* C2: after a successful write the artifact holds exactly the collected
\* records with (not skip_toxic) or toxicity < toxicity_threshold: a record
\* at the threshold is left out, one below it is kept, and without
\* skip_toxic every record is kept.
C2_ArtifactIsStrictFilter ==
    write_status = "ok" =>
        /\ Len(outFile.lines) = 2 * Cardinality(IncludedIdx)
        /\ \A k \in IncludedIdx : EntryOf(results[k]) \in Range(ArtifactEntries)
        /\ \A e \in Range(ArtifactEntries) : \E k \in IncludedIdx : e = EntryOf(results[k])

\* A run with skip_toxic that collected a record at the threshold and a
\* record below it, and wrote the artifact.
C2_Witness ==
    /\ write_status = "ok"
    /\ skip_toxic
    /\ \E k \in DOMAIN results : results[k].toxicity = toxicity_threshold
    /\ \E k \in DOMAIN results : results[k].toxicity < toxicity_threshold

\* The paths the artifact's records were read from, in file order (the body
\* of a record names its path).
ArtifactPaths == [j \in DOMAIN ArtifactEntries |-> ArtifactEntries[j][2][2]]

\* C3: the records of the artifact are in the order of their paths in
\* file_paths, whatever the order in which the workers finished.
C3_ArtifactInInputOrder ==
    write_status = "ok" => IsSubseq(ArtifactPaths, file_paths)

\* Two workers ran two different files side by side and both records were
\* written.
C3_Witness ==
    /\ write_status = "ok"
    /\ max_workers >= 2
    /\ Len(ArtifactPaths) = 2
    /\ ArtifactPaths[1] # ArtifactPaths[2]
\* At most one call of process_file has not returned.
AllButOneFinished ==
    /\ pc # "start"
    /\ Cardinality({i \in DOMAIN futures : futures[i].st # "done"}) <= 1

\* C4: one file whose processing never returns does not stall the batch: when
\* every other file finishes, ingest_files still writes the artifact and
\* returns.
C4_HungFileDoesNotStall ==
    <>[]AllButOneFinished => <>(pc = "done")

\* The futures whose call of process_file gave a record within the timeout.
Succeeded ==
    {i \in DOMAIN futures :
        futures[i].st = "done" /\ futures[i].result # None /\ ~futures[i].late}

\* C5: whatever happens to the other files, a file whose own processing
\* succeeds is dispatched, processed and collected: when ingest_files
\* returns, the collector has taken the record of every such file.
C5_SiblingsAlwaysCollected ==
    (pc = "done" /\ ret.returned) =>
        \A i \in Succeeded : futures[i].seen = "result" /\ futures[i].result[1] \in Range(results)

\* C6: N valid files and one file that fails: ingest_files does not raise and
\* the list it returns holds the record of each of the N valid files.
C6_FailureIsolation ==
    (/\ pc = "done"
     /\ futures # <<>>
     /\ Cardinality({i \in DOMAIN futures : futures[i].result = None}) = 1
     /\ \A i \in DOMAIN futures : futures[i].result # None => i \in Succeeded)
    => /\ ret.returned /\ ~ret.raised
       /\ \A i \in Succeeded : futures[i].result[1] \in Range(ret.value)

\* C7: a failing classifier does not cost the file its record: for a file
\* that is otherwise fine, process_file returns a record with toxicity 0.0.
C7_OracleFailureScoresZero ==
    [][\A i \in Busy :
          (/\ WorkerFinish(i, "good", get_toxicity_score(FailedResponse))
           /\ FileExt(futures[i].path) \in SupportedExts)
          => /\ futures'[i].result # None
             /\ futures'[i].result[1].toxicity = 0]_vars

\* C8: the output file is written at most once, by the orchestrator, after
\* every submitted worker has finished; a worker's step changes neither the
\* output file nor the results list.
C8_WriteOnceAfterWorkers ==
    [][/\ (outFile' # outFile \/ writes' # writes) =>
            /\ pc = "write"
            /\ writes = 0 /\ writes' = 1
            /\ \A i \in DOMAIN futures : futures[i].st = "done"
       /\ (\E i \in DOMAIN futures : futures[i].st # "done" /\ futures'[i].st # futures[i].st)
            => UNCHANGED <<outFile, writes, results>>]_vars

\* The file was written after the collector had given up on a worker.
C8_Witness ==
    /\ writes = 1
    /\ \E i \in DOMAIN futures : futures[i].seen = "timeout"
    /\ outFile.lines # <<>>

\* C9: when the write fails, ingest_files does not raise and returns the list
\* it returns after a successful write.
C9_WriteFailureStillReturns ==
    write_status \in {"open_failed", "write_failed"} =>
        /\ ret.returned /\ ~ret.raised
        /\ ret.value = SelectSeq(results,
                           LAMBDA r : (~skip_toxic) \/ r.toxicity < toxicity_threshold)

\* A write that failed part way, with records to return.
C9_Witness ==
    /\ write_status = "write_failed"
    /\ outFile.lines # <<>>
    /\ Len(ret.value) = 2

IsFileRecord(r) == DOMAIN r = {"filename", "cleaned_text", "toxicity"}

NoValidPath == \A k \in DOMAIN file_paths : ~os_path_isfile(file_paths[k])

\* C14: called with an empty path list or with nonexistent paths only,
\* ingest_files returns an empty list, does not raise, and submits no work
\* to the pool.
C14_EmptyBatchReturnsEmpty ==
    (pc # "start" /\ NoValidPath) =>
        /\ pc = "done"
        /\ ret.returned /\ ~ret.raised
        /\ ret.value = <<>>
        /\ futures = <<>>
        /\ results = <<>>

\* A call with nonexistent paths only has returned.
C14_Witness ==
    /\ pc = "done"
    /\ Len(file_paths) = MaxFiles
    /\ NoValidPath

\* Every record a worker produced, the collector took, or the call returned.
AllRecords ==
    UNION {Range(futures[i].result) : i \in DOMAIN futures}
        \cup Range(results) \cup Range(ret.value)

\* C16: every record produced by process_file and returned by ingest_files
\* has a toxicity field, and it is a number from 0.0 to 1.0 (0 to 10000 in
\* units of 10^-4), whatever list of label/confidence pairs the classifier
\* answered with.
C16_ToxicityInUnitInterval ==
    \A r \in AllRecords :
        /\ "toxicity" \in DOMAIN r
        /\ r.toxicity \in 0..10000

\* The call returned a record scored 1.0 after rounding and one scored 0.0.
C16_Witness ==
    /\ ret.returned
    /\ \E j \in DOMAIN ret.value : ret.value[j].toxicity = 10000
    /\ \E j \in DOMAIN ret.value : ret.value[j].toxicity = 0

\* The futures whose record is in the list ingest_files returned.
InReturnedList ==
    {i \in DOMAIN futures :
        /\ futures[i].seen = "result"
        /\ futures[i].result # None
        /\ Include(futures[i].result[1], skip_toxic, toxicity_threshold)}

\* C17: the timeout is per file: a file whose own processing took longer
\* than the timeout, counted from the start of its processing, is not in the
\* list ingest_files returns, wherever it stands in the path list and however
\* long the collector waited on earlier files.
C17_TimeoutIsPerFile ==
    ret.returned => \A i \in InReturnedList : ~futures[i].late

\* The input paths a record can have come from, going by what the record
\* holds about its origin: its filename.
OriginsOf(r) == {p \in Range(file_paths) : os_path_basename(p) = r.filename}

\* C15: each record ingest_files returns identifies exactly one input path,
\* also when two distinct paths of the list have the same basename or a path
\* is listed twice.
C15_RecordIdentifiesOnePath ==
    ret.returned =>
        \A j \in DOMAIN ret.value : Cardinality(OriginsOf(ret.value[j])) = 1

\* A step that ends the call for a path list with no regular file leaves the
\* file at output_path as it was.
EarlyReturnLeavesFile ==
    (pc = "start" /\ NoValidPath') => (pc' = "done" /\ UNCHANGED <<outFile, writes>>)

\* The step ends a call whose path list had a regular file.
EndsCallWithValidPath == pc # "done" /\ pc' = "done" /\ ~NoValidPath'

\* C19, as stated: with no regular file among the paths ingest_files returns
\* without touching the file at output_path; with at least one, the call
\* does not end without having opened output_path for writing.
C19_OpensWheneverValid ==
    [][/\ EarlyReturnLeavesFile
       /\ EndsCallWithValidPath => write_status' # "none"]_vars

\* C19, amended: with no regular file among the paths the file is untouched;
\* with at least one, a call that returns has tried to open output_path for
\* writing, and unless that open failed the old content is gone, replaced by
\* the included records, by nothing when none is included; a call that
\* raises instead was given max_workers <= 0 and left the file untouched.
C19_OpensWhenItReturns ==
    [][/\ EarlyReturnLeavesFile
       /\ (EndsCallWithValidPath /\ ret'.returned) =>
            /\ pc = "write"
            /\ write_status' # "none"
            /\ write_status' = "open_failed" => UNCHANGED <<outFile, writes>>
            /\ write_status' # "open_failed" =>
                 /\ writes' = writes + 1
                 /\ outFile'.exists
                 /\ IsSubseq(outFile'.lines, Serialize(ret'.value))
                 /\ write_status' = "ok" => outFile'.lines = Serialize(ret'.value)
       /\ (EndsCallWithValidPath /\ ~ret'.returned) =>
            /\ ret'.raised
            /\ max_workers' <= 0
            /\ UNCHANGED <<outFile, writes>>]_vars

\* A call with a regular file among its paths collected no record and
\* left an empty file at output_path.
C19_Witness ==
    /\ pc = "done"
    /\ ~NoValidPath
    /\ results = <<>>
    /\ writes = 1
    /\ outFile = [exists |-> TRUE, lines |-> <<>>]

\* The last position up to i of the argument that holds no EOS, 0 for none.
LastNonEos(i) ==
    LET S == {0} \cup {j \in 1..i : tokens[j] # eos_id}
    IN CHOOSE m \in S : \A k \in S : k <= m

\* The positions of the argument that are not EOS or are among the first
\* max_repeats of their run of EOS.
KeptPositions ==
    {i \in DOMAIN tokens : tokens[i] # eos_id \/ i - LastNonEos(i) <= max_repeats}

RECURSIVE PickFrom(_, _, _)
PickFrom(seq, keep, i) ==
    IF i > Len(seq) THEN <<>>
    ELSE (IF i \in keep THEN <<seq[i]>> ELSE <<>>) \o PickFrom(seq, keep, i + 1)

\* C18: the list filter_excessive_eos returns has no run of more than
\* max_repeats consecutive EOS tokens, keeps every run of at most max_repeats
\* EOS tokens as it is (a longer run is cut to max_repeats), and keeps the
\* other tokens, all of them and in their order.
C18_EosRunsCapped ==
    eos_pc = "returned" =>
        /\ \A i \in 1..(Len(filtered_tokens) - max_repeats) :
              \E j \in i..(i + max_repeats) : filtered_tokens[j] # eos_id
        /\ SelectSeq(filtered_tokens, LAMBDA t : t # eos_id)
              = SelectSeq(tokens, LAMBDA t : t # eos_id)
        /\ filtered_tokens = PickFrom(tokens, KeptPositions, 1)

\* A call that cut a run of EOS tokens, kept a shorter run, and kept a token
\* that is not EOS between them.
C18_Witness ==
    /\ eos_pc = "returned"
    /\ max_repeats = 1
    /\ \E x \in TokenIds \ {eos_id} :
         /\ tokens = <<eos_id, x, eos_id, eos_id>>
         /\ filtered_tokens = <<eos_id, x, eos_id>>

\* C12: clean_text is idempotent: cleaning a text that clean_text returned
\* gives that text back, also for texts with bullet markers and with
\* (Link: X) annotations.
C12_CleanTextIdempotent ==
    clean_pc = "twice" => recleaned = cleaned

\* A step in which upload_to_gdrive raises, with the artifact on disk.
PublishFails ==
    /\ app_file.exists
    /\ upload_status # "failed" /\ upload_status' = "failed"

\* C13: when upload_to_gdrive raises, the app shows the failure, the local
\* output file is neither deleted nor modified, and the run does not end
\* without the artifact having been offered for download.
C13_ArtifactUsableAfterPublishFailure ==
    [][PublishFails =>
          /\ UNCHANGED app_file
          /\ <<"error">> \in Range(ui')
          /\ app_pc' = "returned" =>
                \E j \in DOMAIN ui' : ui'[j][1] = "download_button"]_vars

\* The records the calls of process_file gave, in the order of the paths.
RECURSIVE RecordsFrom(_)
RecordsFrom(fs) ==
    IF fs = <<>> THEN <<>> ELSE Head(fs).result \o RecordsFrom(Tail(fs))

\* C11, as stated: the artifact is fixed by the path list, the file contents
\* and the classifier's answers alone, whatever the scheduling and the
\* timing: it holds the record of every file that gave one and passes the
\* filter, which is what a run writes in which every worker is in time.
C11_ArtifactFixedByInputs ==
    write_status = "ok" =>
        outFile.lines =
            Serialize(FilteredResults(RecordsFrom(futures), skip_toxic, toxicity_threshold))

\* C11, amended: the artifact is fixed by the path list, the file contents,
\* the classifier's answers and the set of files the collector timed out
\* on: it holds, in the order of the paths, the record of every file that
\* gave one, was not timed out on and passes the filter.
C11_ArtifactFixedByInputsAndTimeouts ==
    write_status = "ok" =>
        outFile.lines =
            Serialize(FilteredResults(
                RecordsFrom(SelectSeq(futures, LAMBDA f : f.seen = "result")),
                skip_toxic, toxicity_threshold))

\* Two files that both gave a record: the collector timed out on one, and
\* the artifact holds the other alone.
C11_Witness ==
    /\ write_status = "ok"
    /\ Len(futures) = 2
    /\ \A i \in DOMAIN futures : futures[i].result # None
    /\ \E i \in DOMAIN futures : futures[i].seen = "timeout"
    /\ \E i \in DOMAIN futures : futures[i].seen = "result"
    /\ Len(outFile.lines) = 2
====
